---------------------------- MODULE Spec2Model ----------------------------
(***************************************************************************)
(* Vigilant PII shield (scanner/shield.rs): text normalizer, Luhn          *)
(* validator, detector engine and the Unix-socket connection server.       *)
(*                                                                         *)
(* Text is a sequence of Unicode scalar values (code points, naturals);    *)
(* a byte string is a sequence of naturals below 256.                      *)
(***************************************************************************)
EXTENDS Integers, Sequences, FiniteSets, TLC

(***************************************************************************)
(* Characters                                                              *)
(***************************************************************************)
\* code point of the decimal digit n, '0' = U+0030
Dg(n) == 48 + n

\* the text of a sequence of digit values
Digits(ds) == [k \in 1..Len(ds) |-> Dg(ds[k])]

DASH  == 45
SPACE == 32
DOT   == 46
ZWSP  == 8203
RLM   == 8207
BOM   == 65279

\* u8::is_ascii_digit / char::is_ascii_digit
is_ascii_digit(c) == c >= 48 /\ c <= 57

\* the separators accepted inside a candidate run (shield.rs line 53)
is_separator(b) == b = DASH \/ b = SPACE \/ b = DOT

\* to_ascii_lowercase swapping the case of every ASCII letter
to_ascii_lowercase_toggle(c) ==
    IF c >= 65 /\ c <= 90 THEN c + 32
    ELSE IF c >= 97 /\ c <= 122 THEN c - 32 ELSE c

\* char::to_ascii_lowercase
to_ascii_lowercase(c) == IF c >= 65 /\ c <= 90 THEN c + 32 ELSE c

\* is_stripped with the range ending at U+200D
is_stripped_narrow(c) == (c >= 8203 /\ c <= 8205) \/ (c >= 65279 /\ c <= 65279)

\* the filter closure of normalize_text: TRUE for the characters removed
is_stripped(c) == (c >= 8203 /\ c <= 8207) \/ (c >= 65279 /\ c <= 65279)

\* str::as_bytes of one char: its UTF-8 encoding (scalar values below U+10000)
utf8(c) ==
    IF c < 128 THEN <<c>>
    ELSE IF c < 2048 THEN <<192 + (c \div 64), 128 + (c % 64)>>
    ELSE <<224 + (c \div 4096), 128 + ((c \div 64) % 64), 128 + (c % 64)>>

RECURSIVE as_bytes_from(_, _, _)
\* the bytes acc of text[1..k-1] followed by those of text[k..]
as_bytes_from(text, k, acc) ==
    IF k > Len(text) THEN acc
    ELSE as_bytes_from(text, k + 1, acc \o utf8(text[k]))

\* str::as_bytes
as_bytes(text) == as_bytes_from(text, 1, <<>>)

(***************************************************************************)
(* Text normalizer                                                         *)
(***************************************************************************)
\* the predicate of .filter(...): the characters kept
normalize_keep(c) == ~is_stripped(c)

RECURSIVE normalize_from(_, _, _)
\* the iterator chain chars().filter(..).map(..).collect(), char by char: acc
\* is what input[1..k-1] has contributed
normalize_from(input, k, acc) ==
    IF k > Len(input) THEN acc
    ELSE normalize_from(input, k + 1,
                        IF normalize_keep(input[k])
                        THEN Append(acc, to_ascii_lowercase(input[k]))
                        ELSE acc)

normalize_text(input) == normalize_from(input, 1, <<>>)

(***************************************************************************)
(* Luhn validator                                                          *)
(***************************************************************************)
\* char::to_digit(10): the digit value of '0'..'9', nothing for any other char
to_digit(c) == c - 48

RECURSIVE luhn_digits_from(_, _, _)
\* chars().filter_map(|c| c.to_digit(10)).collect(), char by char
luhn_digits_from(cc_number, k, acc) ==
    IF k > Len(cc_number) THEN acc
    ELSE luhn_digits_from(cc_number, k + 1,
                          IF is_ascii_digit(cc_number[k])
                          THEN Append(acc, to_digit(cc_number[k]))
                          ELSE acc)

\* luhn_digits keeping a 0 for every character that is no digit
luhn_digits_nofilter(cc_number) ==
    [k \in 1..Len(cc_number) |->
        IF is_ascii_digit(cc_number[k]) THEN to_digit(cc_number[k]) ELSE 0]

\* let digits: Vec<u32> = ...
luhn_digits(cc_number) == luhn_digits_from(cc_number, 1, <<>>)

\* luhn_term with the parity test inverted
luhn_term_even(i, d) ==
    IF i % 2 = 0
    THEN LET double == d * 2 IN IF double > 9 THEN double - 9 ELSE double
    ELSE d

\* the closure of .map(): i is the 0-based index from the right, d the digit
luhn_term(i, d) ==
    IF i % 2 = 1
    THEN LET double == d * 2 IN IF double > 9 THEN double - 9 ELSE double
    ELSE d

RECURSIVE luhn_sum_from(_, _)
\* .sum() of the terms of index i and above of digits.iter().rev().enumerate():
\* index i is the digit i places from the right.  A u32 that cannot wrap: it
\* is only computed for at most 19 terms, each at most 9
luhn_sum_from(digits, i) ==
    IF i >= Len(digits) THEN 0
    ELSE luhn_term(i, digits[Len(digits) - i]) + luhn_sum_from(digits, i + 1)

\* digits.iter().rev().enumerate().map(..).sum()
luhn_sum(digits) == luhn_sum_from(digits, 0)

luhn_check(cc_number) ==
    LET digits == luhn_digits(cc_number)
    IN  IF Len(digits) < 13 \/ Len(digits) > 19 THEN FALSE
        ELSE luhn_sum(digits) % 10 = 0

(***************************************************************************)
(* Detector engine                                                         *)
(***************************************************************************)
Finding(kind) == [pii_type |-> kind]

\* ssn_pass firing on exactly 9 digits only
ssn_pass_exact(text) ==
    LET only_digits == SelectSeq(text, is_ascii_digit)
    IN  IF Len(as_bytes(only_digits)) = 9 THEN <<Finding("ID_SSN")>> ELSE <<>>

\* pass 1: text.chars().filter(is_ascii_digit) and the >= 9 test
ssn_pass(text) ==
    LET only_digits == SelectSeq(text, is_ascii_digit)
    IN  IF Len(as_bytes(only_digits)) >= 9 THEN <<Finding("ID_SSN")>> ELSE <<>>

RECURSIVE inner_loop(_, _, _)
\* the inner while: j and raw when it ends (j is a 0-based byte index)
inner_loop(bytes, j, raw) ==
    IF j < Len(bytes)
       /\ (is_ascii_digit(bytes[j + 1]) \/ is_separator(bytes[j + 1]))
    THEN inner_loop(bytes, j + 1,
                    IF is_ascii_digit(bytes[j + 1])
                    THEN Append(raw, bytes[j + 1]) ELSE raw)
    ELSE [j |-> j, raw |-> raw]

\* card_iter without the card-length bounds (any 9 digits or more)
card_iter_nolen(bytes, st) ==
    IF is_ascii_digit(bytes[st.i + 1])
    THEN LET r == inner_loop(bytes, st.i, <<>>)
         IN  IF Len(r.raw) >= 9 /\ luhn_sum(luhn_digits(r.raw)) % 10 = 0
             THEN [i        |-> r.j,
                   findings |-> Append(st.findings, Finding("FIN_CREDIT_CARD")),
                   spans    |-> Append(st.spans, <<st.i, r.j>>)]
             ELSE [st EXCEPT !.i = st.i + 1]
    ELSE [st EXCEPT !.i = st.i + 1]

\* card_iter leaving the loop after its first finding
card_iter_first_only(bytes, st) ==
    IF is_ascii_digit(bytes[st.i + 1])
    THEN LET r == inner_loop(bytes, st.i, <<>>)
         IN  IF Len(r.raw) >= 13 /\ Len(r.raw) <= 19 /\ luhn_check(r.raw)
             THEN [i        |-> Len(bytes),
                   findings |-> Append(st.findings, Finding("FIN_CREDIT_CARD")),
                   spans    |-> Append(st.spans, <<st.i, r.j>>)]
             ELSE [st EXCEPT !.i = st.i + 1]
    ELSE [st EXCEPT !.i = st.i + 1]

\* card_iter moving the cursor by one after a finding too
card_iter_step_one(bytes, st) ==
    IF is_ascii_digit(bytes[st.i + 1])
    THEN LET r == inner_loop(bytes, st.i, <<>>)
         IN  IF Len(r.raw) >= 13 /\ Len(r.raw) <= 19 /\ luhn_check(r.raw)
             THEN [i        |-> st.i + 1,
                   findings |-> Append(st.findings, Finding("FIN_CREDIT_CARD")),
                   spans    |-> Append(st.spans, <<st.i, r.j>>)]
             ELSE [st EXCEPT !.i = st.i + 1]
    ELSE [st EXCEPT !.i = st.i + 1]

\* card_iter moving the cursor to the run end after a failed candidate too
card_iter_noretry(bytes, st) ==
    IF is_ascii_digit(bytes[st.i + 1])
    THEN LET r == inner_loop(bytes, st.i, <<>>)
         IN  IF Len(r.raw) >= 13 /\ Len(r.raw) <= 19 /\ luhn_check(r.raw)
             THEN [i        |-> r.j,
                   findings |-> Append(st.findings, Finding("FIN_CREDIT_CARD")),
                   spans    |-> Append(st.spans, <<st.i, r.j>>)]
             ELSE [st EXCEPT !.i = r.j]
    ELSE [st EXCEPT !.i = st.i + 1]

\* card_iter with i += 1 inside the if: a byte that is no digit leaves i
card_iter_stuck(bytes, st) ==
    IF is_ascii_digit(bytes[st.i + 1])
    THEN LET r == inner_loop(bytes, st.i, <<>>)
         IN  IF Len(r.raw) >= 13 /\ Len(r.raw) <= 19 /\ luhn_check(r.raw)
             THEN [i        |-> r.j,
                   findings |-> Append(st.findings, Finding("FIN_CREDIT_CARD")),
                   spans    |-> Append(st.spans, <<st.i, r.j>>)]
             ELSE [st EXCEPT !.i = st.i + 1]
    ELSE st

\* one iteration of the outer while at cursor st.i < bytes.len().  st.spans
\* records, for each finding pushed, the byte span [i, j) its run consumed.
card_iter(bytes, st) ==
    IF is_ascii_digit(bytes[st.i + 1])
    THEN LET r == inner_loop(bytes, st.i, <<>>)
         IN  IF Len(r.raw) >= 13 /\ Len(r.raw) <= 19 /\ luhn_check(r.raw)
             THEN [i        |-> r.j,
                   findings |-> Append(st.findings, Finding("FIN_CREDIT_CARD")),
                   spans    |-> Append(st.spans, <<st.i, r.j>>)]
             ELSE [st EXCEPT !.i = st.i + 1]
    ELSE [st EXCEPT !.i = st.i + 1]

RECURSIVE card_loop(_, _)
\* while i < bytes.len() { ... }
card_loop(bytes, st) ==
    IF st.i < Len(bytes) THEN card_loop(bytes, card_iter(bytes, st)) ELSE st

\* scan_run with the two passes in the other order
scan_run_cards_first(raw_text) ==
    LET text == normalize_text(raw_text)
        st   == card_loop(as_bytes(text),
                          [i |-> 0, findings |-> <<>>, spans |-> <<>>])
    IN  [st EXCEPT !.findings = st.findings \o ssn_pass(text)]

\* scan_run without the call of normalize_text
scan_run_raw(raw_text) ==
    LET text == raw_text
    IN  card_loop(as_bytes(text),
                  [i |-> 0, findings |-> ssn_pass(text), spans |-> <<>>])

\* the whole of scan_pii, with the spans of its credit-card findings
scan_run(raw_text) ==
    LET text == normalize_text(raw_text)
    IN  card_loop(as_bytes(text),
                  [i |-> 0, findings |-> ssn_pass(text), spans |-> <<>>])

scan_pii(raw_text) == scan_run(raw_text).findings

(***************************************************************************)
(* State                                                                   *)
(***************************************************************************)
VARIABLES
    cc_digits,   \* luhn_check harness: a digit-only argument
    cc_number,   \* luhn_check harness: cc_digits with separators inserted
    luhn_out,    \* <<>>, or <<r>> with r the two results of luhn_check
    raw_text,    \* scan_pii harness: the argument
    scan_out,    \* <<>>, or <<st>> with st the final loop state of scan_pii
    pc,          \* main: the server's position
    sock_file,   \* main: whether an endpoint exists at socket_path
    backlog,     \* the listener's queue of connections not yet accepted
    conns,       \* every connection made so far, by id
    cur,         \* the stream bound in the loop body (0: none)
    buffer,      \* main: buffer
    findings,    \* main: findings
    response,    \* main: response
    accept_failed, \* whether incoming() has yielded Err so far
    norm_in,     \* normalize_text harness: the argument
    norm_out,    \* <<>>, or <<r>> with r the results of normalize_text
    obf_text,    \* scan_pii harness: raw_text obfuscated
    obf_out,     \* <<>>, or <<st>> with st the final loop state on obf_text
    scan_bytes,  \* scan_pii step by step: bytes
    scan_st,     \* <<>>, or <<st>> with st the loop state (i, findings)
    scan_j,      \* the value of j when the inner while last ended (-1: none)
    heap,        \* naab runtime: the values created so far, by handle
    ffi_pc,      \* binding layer: "run", or how the process ended
    last         \* binding layer: the last call made and what it returned

vars == <<cc_digits, cc_number, luhn_out, raw_text, scan_out, pc, sock_file,
          backlog, conns, cur, buffer, findings, response, accept_failed,
          norm_in, norm_out, obf_text, obf_out, scan_bytes, scan_st, scan_j,
          heap, ffi_pc, last>>

luhn_vars   == <<cc_digits, cc_number, luhn_out>>
scan_vars   == <<raw_text, scan_out>>
server_vars == <<pc, sock_file, backlog, conns, cur, buffer, findings,
                 response, accept_failed>>

norm_vars    == <<norm_in, norm_out>>
obf_vars     == <<obf_text, obf_out>>
loop_vars    == <<scan_bytes, scan_st, scan_j>>
ffi_vars     == <<heap, ffi_pc, last>>
harness_vars == <<norm_vars, obf_vars, loop_vars, ffi_vars>>

NormIdle == norm_in = <<>> /\ norm_out = <<>>
ObfIdle  == obf_text = <<>> /\ obf_out = <<>>
LoopIdle == scan_bytes = <<>> /\ scan_st = <<>> /\ scan_j = -1
FfiIdle  == heap = <<>> /\ ffi_pc = "idle" /\ last = <<>>
HarnessIdle == NormIdle /\ ObfIdle /\ LoopIdle /\ FfiIdle

LuhnIdle == cc_digits = <<>> /\ cc_number = <<>> /\ luhn_out = <<>>
ScanIdle == raw_text = <<>> /\ scan_out = <<>>
ServerIdle ==
    /\ pc = "Idle" /\ sock_file = FALSE /\ backlog = <<>> /\ conns = <<>>
    /\ cur = 0 /\ buffer = <<>> /\ findings = <<>> /\ response = ""
    /\ accept_failed = FALSE

(***************************************************************************)
(* luhn_check applied to bounded inputs                                    *)
(***************************************************************************)
\* longest digit sequence tried
MaxDigits == 21

\* largest group size used when separators are inserted
MaxGroup == 4

\* the digit sequence a, b, b, ..., b, c of length n
CardDigits(a, b, n, c) ==
    [k \in 1..n |-> IF k = n THEN c ELSE IF k = 1 THEN a ELSE b]

RECURSIVE InsertSeps(_, _, _, _)
\* text d from position k on, with sep put after every g-th character
InsertSeps(d, k, g, sep) ==
    IF k > Len(d) THEN <<>>
    ELSE IF k % g = 0 THEN <<d[k], sep>> \o InsertSeps(d, k + 1, g, sep)
         ELSE <<d[k]>> \o InsertSeps(d, k + 1, g, sep)

\* d unchanged (g = 0), or with sep in front and after every g-th character
Separated(d, g, sep) ==
    IF g = 0 THEN d ELSE <<sep>> \o InsertSeps(d, 1, g, sep)

LuhnInit ==
    /\ \E n \in 0..MaxDigits, a \in {0, 4, 9}, b \in {1, 7}, c \in 0..9,
          g \in 0..MaxGroup, sep \in {DASH, SPACE, DOT} :
          /\ cc_digits = Digits(CardDigits(a, b, n, c))
          /\ cc_number = Separated(cc_digits, g, sep)
    /\ luhn_out = <<>>
    /\ ScanIdle /\ ServerIdle /\ HarnessIdle

LuhnApply ==
    /\ luhn_out = <<>>
    /\ luhn_out' = <<[plain     |-> luhn_check(cc_digits),
                      separated |-> luhn_check(cc_number)]>>
    /\ UNCHANGED <<cc_digits, cc_number, scan_vars, server_vars, harness_vars>>

SpecLuhn == LuhnInit /\ [][LuhnApply]_vars

(***************************************************************************)
(* normalize_text applied to bounded inputs                                *)
(***************************************************************************)
\* longest text tried
MaxLen == 3

\* the characters the texts are made of: 'A', 'Z', 'a', '0', '-', U+00C9,
\* U+00E9, and the characters at and around the two stripped ranges
NormChars ==
    {65, 90, 97, 48, 45, 201, 233,
     8202, 8203, 8205, 8207, 8208, 65278, 65279}

NormInit ==
    /\ norm_in \in UNION {[1..n -> NormChars] : n \in 0..MaxLen}
    /\ norm_out = <<>>
    /\ ObfIdle /\ LoopIdle /\ LuhnIdle /\ ScanIdle /\ ServerIdle /\ FfiIdle

NormApply ==
    /\ norm_out = <<>>
    /\ norm_out' = <<[once  |-> normalize_text(norm_in),
                      twice |-> normalize_text(normalize_text(norm_in))]>>
    /\ UNCHANGED <<norm_in, obf_vars, loop_vars, luhn_vars, scan_vars,
                   server_vars, ffi_vars>>

SpecNorm == NormInit /\ [][NormApply]_vars

(***************************************************************************)
(* scan_pii applied to bounded inputs                                      *)
(***************************************************************************)
\* most digits 9 put in front of a number
MaxPad == 4

V16 == <<4,1,1,1, 1,1,1,1, 1,1,1,1, 1,1,1,1>>
X16 == <<4,1,1,1, 1,1,1,1, 1,1,1,1, 1,1,1,2>>
M16 == <<5,5,0,0, 0,0,0,0, 0,0,0,0, 0,0,0,4>>
V13 == <<4,2,2,2, 2,2,2,2, 2,2,2,2, 2>>
V12 == <<4,1,1,1, 1,1,1,1, 1,1,1,7>>
V19 == <<4,1,1,1, 1,1,1,1, 1,1,1,1, 1,1,1,1, 1,1,0>>
Z17 == <<0>> \o V16
N9  == <<1,2,3,4, 5,6,7,8, 9>>
N8  == <<1,2,3,4, 5,6,7,8>>

\* the numbers a text is built from
Bodies == {<<>>, N8, N9, V12, V13, V16, X16, M16, V19, Z17}

\* k digits 9 followed by the digits ds
Padded(k, ds) == [j \in 1..k |-> 9] \o ds

\* the texts that may stand between two numbers
Mids == {<<>>, <<SPACE>>, <<DASH>>, <<97>>, <<SPACE, 65, SPACE>>, <<ZWSP>>,
         <<233>>, <<BOM, DOT, RLM>>}

\* the texts that may stand in front
Pres == {<<>>, <<90, SPACE>>}

ScanInputs ==
    { pre \o Separated(Digits(Padded(k, b1)), g, DASH) \o mid \o Digits(b2) :
        pre \in Pres, k \in 0..MaxPad, b1 \in Bodies, g \in {0, MaxGroup},
        mid \in Mids, b2 \in {<<>>, N9, V16, X16, M16} }

ScanInit ==
    /\ raw_text \in ScanInputs
    /\ scan_out = <<>>
    /\ LuhnIdle /\ ServerIdle /\ HarnessIdle

ScanApply ==
    /\ scan_out = <<>>
    /\ scan_out' = <<scan_run(raw_text)>>
    /\ UNCHANGED <<raw_text, luhn_vars, server_vars, harness_vars>>

SpecScan == ScanInit /\ [][ScanApply]_vars

(***************************************************************************)
(* scan_pii applied to a text and to an obfuscation of it                  *)
(***************************************************************************)
\* largest distance between two inserted characters
MaxGap == 3

\* the characters inserted: U+200B, U+200D, U+200F, U+FEFF
Inserted == {ZWSP, 8205, RLM, BOM}

\* the text t with the case of every ASCII letter changed
SwapCase(t) ==
    [k \in 1..Len(t) |->
        IF t[k] >= 65 /\ t[k] <= 90 THEN t[k] + 32
        ELSE IF t[k] >= 97 /\ t[k] <= 122 THEN t[k] - 32 ELSE t[k]]

\* the texts obfuscated
ObfInputs ==
    { pre \o Digits(b1) \o mid \o Digits(b2) :
        pre \in Pres, b1 \in {N8, N9, V13, V16, X16, Z17},
        mid \in Mids, b2 \in {<<>>, V16} }

ObfInit ==
    /\ raw_text \in ObfInputs
    /\ \E g \in 0..MaxGap, z \in Inserted, swap \in BOOLEAN :
          obf_text = Separated(IF swap THEN SwapCase(raw_text) ELSE raw_text,
                               g, z)
    /\ scan_out = <<>> /\ obf_out = <<>>
    /\ NormIdle /\ LoopIdle /\ LuhnIdle /\ ServerIdle /\ FfiIdle

ObfApply ==
    /\ scan_out = <<>> /\ obf_out = <<>>
    /\ scan_out' = <<scan_run(raw_text)>>
    /\ obf_out' = <<scan_run(obf_text)>>
    /\ UNCHANGED <<raw_text, obf_text, norm_vars, loop_vars, luhn_vars,
                   server_vars, ffi_vars>>

SpecObf == ObfInit /\ [][ObfApply]_vars

(***************************************************************************)
(* scan_pii step by step: one step per iteration of the outer while        *)
(***************************************************************************)
\* the texts scanned step by step
LoopInputs ==
    { pre \o Separated(Digits(Padded(k, b1)), g, DASH) \o mid \o Digits(b2) :
        pre \in Pres, k \in {0, MaxPad}, b1 \in {<<>>, N9, V16, V19, Z17},
        g \in {0, MaxGroup},
        mid \in {<<>>, <<97>>, <<SPACE>>, <<233>>, <<BOM, DOT, RLM>>},
        b2 \in {<<>>, V16} }

LoopInit ==
    /\ raw_text \in LoopInputs
    /\ scan_out = <<>>
    /\ LoopIdle /\ NormIdle /\ ObfIdle /\ LuhnIdle /\ ServerIdle /\ FfiIdle

\* lines 36 to 48: normalize, the SSN pass, i = 0, bytes = text.as_bytes()
ScanBegin ==
    /\ scan_st = <<>> /\ scan_out = <<>>
    /\ LET text == normalize_text(raw_text)
       IN  /\ scan_bytes' = as_bytes(text)
           /\ scan_st' = <<[i |-> 0, findings |-> ssn_pass(text),
                            spans |-> <<>>]>>
    /\ UNCHANGED <<raw_text, scan_out, scan_j, norm_vars, obf_vars, luhn_vars,
                   server_vars, ffi_vars>>

\* lines 49 to 63: the test i < bytes.len() holds, one iteration follows
ScanIter ==
    /\ scan_st # <<>> /\ scan_out = <<>>
    /\ scan_st[1].i < Len(scan_bytes)
    /\ scan_st' = <<card_iter(scan_bytes, scan_st[1])>>
    /\ scan_j' = IF is_ascii_digit(scan_bytes[scan_st[1].i + 1])
                 THEN inner_loop(scan_bytes, scan_st[1].i, <<>>).j
                 ELSE scan_j
    /\ UNCHANGED <<raw_text, scan_out, scan_bytes, norm_vars, obf_vars,
                   luhn_vars, server_vars, ffi_vars>>

\* line 65: the test i < bytes.len() fails, findings is returned
ScanReturn ==
    /\ scan_st # <<>> /\ scan_out = <<>>
    /\ scan_st[1].i >= Len(scan_bytes)
    /\ scan_out' = scan_st
    /\ UNCHANGED <<raw_text, loop_vars, norm_vars, obf_vars, luhn_vars,
                   server_vars, ffi_vars>>

LoopNext == ScanBegin \/ ScanIter \/ ScanReturn

SpecLoop == LoopInit /\ [][LoopNext]_vars

\* ENABLED <<ScanBegin>>_vars: the step always changes scan_st
BeginEnabled == scan_st = <<>> /\ scan_out = <<>>

\* ENABLED <<ScanIter>>_vars: an iteration is due and it changes i or j
IterEnabled ==
    /\ scan_st # <<>> /\ scan_out = <<>>
    /\ scan_st[1].i < Len(scan_bytes)
    /\ \/ card_iter(scan_bytes, scan_st[1]) # scan_st[1]
       \/ /\ is_ascii_digit(scan_bytes[scan_st[1].i + 1])
          /\ inner_loop(scan_bytes, scan_st[1].i, <<>>).j # scan_j

\* scan_pii runs on a thread that is never suspended for ever: weak fairness
\* of each of its steps.  WF_vars(A) is []<>~ENABLED <<A>>_vars \/
\* []<><<A>>_vars; for ScanBegin and ScanIter it is written in that form,
\* with the enabling condition as a state predicate.
SpecLoopFair ==
    /\ SpecLoop
    /\ ([]<>~BeginEnabled \/ []<><<ScanBegin>>_vars)
    /\ ([]<>~IterEnabled \/ []<><<ScanIter>>_vars)
    /\ WF_vars(ScanReturn)

(***************************************************************************)
(* Connection server (main)                                                *)
(***************************************************************************)
\* most connections clients make in one run
MaxConns == 2

\* "SSN 123456789 and card 4111-1111-1111-1111"
ExampleText ==
    <<
       83, 83, 78, 32, 49, 50, 51, 52, 53, 54, 55, 56, 57, 32, 97, 110,
       100, 32, 99, 97, 114, 100, 32, 52, 49, 49, 49, 45, 49, 49, 49, 49,
       45, 49, 49, 49, 49, 45, 49, 49, 49, 49
    >>

\* what a client sends before it closes its write side: bytes that are the
\* UTF-8 encoding of a text (valid), or bytes that are no UTF-8 at all
Payloads ==
    { [valid |-> TRUE,  text |-> <<>>],
      [valid |-> TRUE,  text |-> ExampleText],
      [valid |-> TRUE,  text |-> Digits(N9)],
      [valid |-> FALSE, text |-> <<>>] }

RECURSIVE join_from(_, _)
\* .collect::<Vec<_>>().join(",") of parts[k..]
join_from(parts, k) ==
    IF k > Len(parts) THEN ""
    ELSE IF k = Len(parts) THEN parts[k]
    ELSE parts[k] \o "," \o join_from(parts, k + 1)

\* format_response putting a ',' after every item, the last included
format_response_spaced(fs) ==
    LET parts == [k \in 1..Len(fs) |-> "{\"type\":\"" \o fs[k].pii_type \o "\"},"]
    IN  "[" \o join_from(parts, 1) \o "]"

\* format!("[{}]", findings.iter().map(|f| format!(..)).collect().join(","))
format_response(fs) ==
    LET parts == [k \in 1..Len(fs) |-> "{\"type\":\"" \o fs[k].pii_type \o "\"}"]
    IN  "[" \o join_from(parts, 1) \o "]"

\* a connection as the client made it: queued in the listener, nothing read
NewConn(p) ==
    [payload |-> p,       \* what the client sends
     peer    |-> "open",  \* client side: open, shut_wr (write side closed), closed
     srv     |-> "queued",\* server side: queued, open (accepted), closed (dropped)
     rd      |-> <<>>,    \* the results of the read_to_string calls on it
     scanned |-> FALSE,   \* whether scan_pii ran on its payload
     wire    |-> <<>>]    \* the write_all calls on it: the data, and whether
                          \* all of it (or only a proper prefix) was sent

ServerInit ==
    /\ pc = "Start" /\ sock_file \in BOOLEAN /\ backlog = <<>> /\ conns = <<>>
    /\ cur = 0 /\ buffer = <<>> /\ findings = <<>> /\ response = ""
    /\ accept_failed = FALSE
    /\ LuhnIdle /\ ScanIdle /\ HarnessIdle

Listening == pc \in {"Accepting", "Reading", "Processing", "Writing", "Closing"}

\* let _ = fs::remove_file(socket_path): the endpoint is removed, or (second
\* disjunct) the removal fails and the result is ignored
RemoveStale ==
    /\ pc = "Start"
    /\ \/ sock_file' = FALSE
       \/ sock_file /\ sock_file' = sock_file
    /\ pc' = "Bind"
    /\ UNCHANGED <<backlog, conns, cur, buffer, findings, response,
                   accept_failed, luhn_vars, scan_vars, harness_vars>>

\* UnixListener::bind(socket_path) returns Ok: the path was free
BindOk ==
    /\ pc = "Bind" /\ ~sock_file
    /\ sock_file' = TRUE
    /\ pc' = "Accepting"
    /\ UNCHANGED <<backlog, conns, cur, buffer, findings, response,
                   accept_failed, luhn_vars, scan_vars, harness_vars>>

\* BindFail with the error ignored: main goes on to the accept loop
BindFail_ignored ==
    /\ pc = "Bind"
    /\ pc' = "Accepting"
    /\ UNCHANGED <<sock_file, backlog, conns, cur, buffer, findings, response,
                   accept_failed, luhn_vars, scan_vars, harness_vars>>

\* bind returns Err (path in use, permission denied, ...): expect() panics
BindFail ==
    /\ pc = "Bind"
    /\ pc' = "Exited"
    /\ UNCHANGED <<sock_file, backlog, conns, cur, buffer, findings, response,
                   accept_failed, luhn_vars, scan_vars, harness_vars>>

\* a client connects to the listening socket and sends payload p
ClientConnect(p) ==
    /\ Listening /\ Len(conns) < MaxConns
    /\ conns' = Append(conns, NewConn(p))
    /\ backlog' = Append(backlog, Len(conns) + 1)
    /\ UNCHANGED <<pc, sock_file, cur, buffer, findings, response,
                   accept_failed, luhn_vars, scan_vars, harness_vars>>

\* client c closes its write side: the server's read sees end of stream
ClientShutdown(c) ==
    /\ conns[c].peer = "open"
    /\ conns' = [conns EXCEPT ![c].peer = "shut_wr"]
    /\ UNCHANGED <<pc, sock_file, backlog, cur, buffer, findings, response,
                   accept_failed, luhn_vars, scan_vars, harness_vars>>

\* client c closes its socket: end of stream for reads, writes to it fail
ClientClose(c) ==
    /\ conns[c].peer \in {"open", "shut_wr"}
    /\ conns' = [conns EXCEPT ![c].peer = "closed"]
    /\ UNCHANGED <<pc, sock_file, backlog, cur, buffer, findings, response,
                   accept_failed, luhn_vars, scan_vars, harness_vars>>

\* Accept taken before the previous stream is dropped
Accept_before_close ==
    /\ pc \in {"Accepting", "Closing"} /\ backlog # <<>>
    /\ cur' = Head(backlog)
    /\ backlog' = Tail(backlog)
    /\ conns' = [conns EXCEPT ![Head(backlog)].srv = "open"]
    /\ buffer' = <<>>
    /\ pc' = "Reading"
    /\ UNCHANGED <<sock_file, findings, response, accept_failed,
                   luhn_vars, scan_vars, harness_vars>>

\* Accept taken while the read on the previous stream is still pending
Accept_while_reading ==
    /\ pc \in {"Accepting", "Reading"} /\ backlog # <<>>
    /\ cur' = Head(backlog)
    /\ backlog' = Tail(backlog)
    /\ conns' = [conns EXCEPT ![Head(backlog)].srv = "open"]
    /\ buffer' = <<>>
    /\ pc' = "Reading"
    /\ UNCHANGED <<sock_file, findings, response, accept_failed,
                   luhn_vars, scan_vars, harness_vars>>

\* incoming() yields Ok(stream); buffer = String::new()
Accept ==
    /\ pc = "Accepting" /\ backlog # <<>>
    /\ cur' = Head(backlog)
    /\ backlog' = Tail(backlog)
    /\ conns' = [conns EXCEPT ![Head(backlog)].srv = "open"]
    /\ buffer' = <<>>
    /\ pc' = "Reading"
    /\ UNCHANGED <<sock_file, findings, response, accept_failed,
                   luhn_vars, scan_vars, harness_vars>>

\* incoming() yields Err: the if-let does not match, the loop goes on
AcceptErr ==
    /\ pc = "Accepting"
    /\ accept_failed' = TRUE
    /\ UNCHANGED <<pc, sock_file, backlog, conns, cur, buffer, findings,
                   response, luhn_vars, scan_vars, harness_vars>>

\* ReadOk returning before end of stream, with what has arrived so far
ReadOk_early ==
    /\ pc = "Reading"
    /\ conns[cur].payload.valid
    /\ buffer' = buffer \o conns[cur].payload.text
    /\ conns' = [conns EXCEPT ![cur].rd = Append(@, "ok")]
    /\ pc' = "Processing"
    /\ UNCHANGED <<sock_file, backlog, cur, findings, response, accept_failed,
                   luhn_vars, scan_vars, harness_vars>>

\* read_to_string returns Ok at end of stream: the payload is valid UTF-8
ReadOk ==
    /\ pc = "Reading"
    /\ conns[cur].peer # "open" /\ conns[cur].payload.valid
    /\ buffer' = buffer \o conns[cur].payload.text
    /\ conns' = [conns EXCEPT ![cur].rd = Append(@, "ok")]
    /\ pc' = "Processing"
    /\ UNCHANGED <<sock_file, backlog, cur, findings, response, accept_failed,
                   luhn_vars, scan_vars, harness_vars>>

\* ReadInvalid with the result of read_to_string ignored
ReadInvalid_ignored ==
    /\ pc = "Reading"
    /\ conns[cur].peer # "open" /\ ~conns[cur].payload.valid
    /\ conns' = [conns EXCEPT ![cur].rd = Append(@, "err")]
    /\ pc' = "Processing"
    /\ UNCHANGED <<sock_file, backlog, cur, buffer, findings, response,
                   accept_failed, luhn_vars, scan_vars, harness_vars>>

\* read_to_string returns Err at end of stream: the payload is not UTF-8
ReadInvalid ==
    /\ pc = "Reading"
    /\ conns[cur].peer # "open" /\ ~conns[cur].payload.valid
    /\ conns' = [conns EXCEPT ![cur].rd = Append(@, "err")]
    /\ pc' = "Closing"
    /\ UNCHANGED <<sock_file, backlog, cur, buffer, findings, response,
                   accept_failed, luhn_vars, scan_vars, harness_vars>>

\* read_to_string returns Err: an I/O error, at any time
ReadIoErr ==
    /\ pc = "Reading"
    /\ conns' = [conns EXCEPT ![cur].rd = Append(@, "err")]
    /\ pc' = "Closing"
    /\ UNCHANGED <<sock_file, backlog, cur, buffer, findings, response,
                   accept_failed, luhn_vars, scan_vars, harness_vars>>

\* Process scanning a buffer that still holds the previous request's payload
Process_shared_buffer ==
    /\ pc = "Processing"
    /\ findings' = scan_pii(IF cur > 1
                            THEN conns[cur - 1].payload.text \o buffer
                            ELSE buffer)
    /\ response' = format_response(findings')
    /\ conns' = [conns EXCEPT ![cur].scanned = TRUE]
    /\ pc' = "Writing"
    /\ UNCHANGED <<sock_file, backlog, cur, buffer, accept_failed,
                   luhn_vars, scan_vars, harness_vars>>

\* findings = scan_pii(&buffer); response = format!(...)
Process ==
    /\ pc = "Processing"
    /\ findings' = scan_pii(buffer)
    /\ response' = format_response(findings')
    /\ conns' = [conns EXCEPT ![cur].scanned = TRUE]
    /\ pc' = "Writing"
    /\ UNCHANGED <<sock_file, backlog, cur, buffer, accept_failed,
                   luhn_vars, scan_vars, harness_vars>>

\* write_all returns Ok: the peer still has its socket
WriteOk ==
    /\ pc = "Writing" /\ conns[cur].peer # "closed"
    /\ conns' = [conns EXCEPT
                   ![cur].wire = Append(@, [data |-> response, complete |-> TRUE])]
    /\ pc' = "Closing"
    /\ UNCHANGED <<sock_file, backlog, cur, buffer, findings, response,
                   accept_failed, luhn_vars, scan_vars, harness_vars>>

\* WriteErr with the error unwrapped: the process panics
WriteErr_panic ==
    /\ pc = "Writing"
    /\ conns' = [conns EXCEPT
                   ![cur].wire = Append(@, [data |-> response, complete |-> FALSE])]
    /\ pc' = "Exited"
    /\ UNCHANGED <<sock_file, backlog, cur, buffer, findings, response,
                   accept_failed, luhn_vars, scan_vars, harness_vars>>

\* write_all returns Err (peer gone, I/O error) after sending a proper prefix
\* of the data, possibly nothing; let _ = ignores it
WriteErr ==
    /\ pc = "Writing"
    /\ conns' = [conns EXCEPT
                   ![cur].wire = Append(@, [data |-> response, complete |-> FALSE])]
    /\ pc' = "Closing"
    /\ UNCHANGED <<sock_file, backlog, cur, buffer, findings, response,
                   accept_failed, luhn_vars, scan_vars, harness_vars>>

\* the end of the if-let body: stream, buffer, findings, response are dropped
Close ==
    /\ pc = "Closing"
    /\ conns' = [conns EXCEPT ![cur].srv = "closed"]
    /\ cur' = 0
    /\ buffer' = <<>> /\ findings' = <<>> /\ response' = ""
    /\ pc' = "Accepting"
    /\ UNCHANGED <<sock_file, backlog, accept_failed, luhn_vars, scan_vars, harness_vars>>

ServerStep ==
    \/ RemoveStale \/ BindOk \/ BindFail
    \/ Accept \/ AcceptErr
    \/ ReadOk \/ ReadInvalid \/ ReadIoErr
    \/ Process
    \/ WriteOk \/ WriteErr
    \/ Close

ClientStep ==
    \/ \E p \in Payloads : ClientConnect(p)
    \/ \E c \in 1..Len(conns) : ClientShutdown(c)
    \/ \E c \in 1..Len(conns) : ClientClose(c)

Next == ServerStep \/ ClientStep

Spec == ServerInit /\ [][Next]_vars

(***************************************************************************)
(* Binding layer (naab-sys): values and the runtime's handles              *)
(***************************************************************************)
\* most handles created in one run
MaxHandles == 2

\* most arguments passed to a block
MaxArgs == 1

\* the null pointer
NULL == 0

\* i32::MAX
I32_MAX == 2147483647

\* enum Value: the variant and its payload, the payload as a sequence (the
\* i32 of Int, 0 or 1 for Bool, the characters of String, the f64 of Double
\* as twice its value, nothing for Void)
IntV(i)    == [kind |-> "Int",    v |-> <<i>>]
DoubleV(d) == [kind |-> "Double", v |-> <<d>>]
BoolV(b)   == [kind |-> "Bool",   v |-> <<IF b THEN 1 ELSE 0>>]
StringV(t) == [kind |-> "String", v |-> t]
VoidV      == [kind |-> "Void",   v |-> <<>>]

\* enum NaabRustValueType
Kinds == {"Void", "Int", "Double", "Bool", "String"}

\* the values the caller converts: 41, i32::MAX, true, "", U+00E9, "a\0b",
\* 1.5 and void
CallerValues ==
    {IntV(41), IntV(I32_MAX), BoolV(TRUE), StringV(<<>>), StringV(<<233>>),
     StringV(<<97, 0, 98>>), DoubleV(3), VoidV}

\* what a getter may return when it reads a handle that was freed
Junk(kind) ==
    CASE kind = "Int"    -> {<<0>>}
      [] kind = "Double" -> {<<3>>}
      [] kind = "Bool"   -> {<<0>>}
      [] kind = "String" -> {<<255>>}
      [] OTHER           -> {<<>>}

\* naab_rust_value_create_*: a new value of the given type and data; its
\* handle is the next one, never null.  src is <<v>> for the Value v whose
\* to_ffi made the call.
naab_rust_value_create(hp, type, data, src) ==
    Append(hp, [type |-> type, data |-> data, live |-> TRUE,
                src       |-> src,    \* the Value it was created from
                frees     |-> 0,      \* naab_rust_value_free calls on it
                given     |-> 0,      \* times handed to from_ffi / free_value
                uaf       |-> FALSE,  \* it was read after it was freed
                lent_late |-> FALSE]) \* it was lent after it was handed over

\* naab_rust_value_get_type: the stored type; anything for a freed handle
naab_rust_value_get_type(hp, h) ==
    IF hp[h].live THEN {hp[h].type} ELSE Kinds

\* naab_rust_value_get_int / _double / _bool / _string: the stored data;
\* anything of that type for a freed handle
naab_rust_value_get(hp, h, kind) ==
    IF hp[h].live /\ hp[h].type = kind THEN {hp[h].data} ELSE Junk(kind)

\* naab_rust_value_free: the value is released
naab_rust_value_free(hp, h) ==
    [hp EXCEPT ![h].live = FALSE,
               ![h].frees = IF @ < 2 THEN @ + 1 ELSE @]

\* a read of handle h by a getter, recorded
Touch(hp, h) ==
    [hp EXCEPT ![h].uaf = @ \/ ~hp[h].live,
               ![h].lent_late = @ \/ hp[h].given > 0]

(***************************************************************************)
(* Binding layer: ffi.rs wrappers, Value conversions, naab_block           *)
(***************************************************************************)
RECURSIVE from_utf8_lossy(_, _, _)
\* CStr::to_string_lossy().into_owned(): the characters of the bytes bs from
\* index k on (scalar values below U+10000), U+FFFD for a byte that starts
\* no valid sequence
from_utf8_lossy(bs, k, acc) ==
    IF k > Len(bs) THEN acc
    ELSE LET b     == bs[k]
             cont1 == k + 1 <= Len(bs) /\ bs[k + 1] >= 128 /\ bs[k + 1] <= 191
             cont2 == k + 2 <= Len(bs) /\ bs[k + 2] >= 128 /\ bs[k + 2] <= 191
         IN  IF b < 128 THEN from_utf8_lossy(bs, k + 1, Append(acc, b))
             ELSE IF b >= 194 /\ b <= 223 /\ cont1
             THEN from_utf8_lossy(bs, k + 2,
                     Append(acc, (b - 192) * 64 + (bs[k + 1] - 128)))
             ELSE IF /\ b >= 224 /\ b <= 239 /\ cont1 /\ cont2
                     /\ (b = 224 => bs[k + 1] >= 160)
                     /\ (b = 237 => bs[k + 1] <= 159)
             THEN from_utf8_lossy(bs, k + 3,
                     Append(acc, (b - 224) * 4096 + (bs[k + 1] - 128) * 64
                                 + (bs[k + 2] - 128)))
             ELSE from_utf8_lossy(bs, k + 1, Append(acc, 65533))

\* ffi::get_string on the C string bs
get_string(bs) == from_utf8_lossy(bs, 1, <<>>)

\* CString::new(value) fails: the string holds a 0 byte; expect() panics
create_string_panics(v) ==
    v.kind = "String" /\ \E k \in 1..Len(v.v) : v.v[k] = 0

\* Value::to_ffi when it does not panic: the heap with the new handle, whose
\* data is the payload (for a String its bytes, as a C string)
to_ffi(hp, v) ==
    naab_rust_value_create(hp, v.kind,
                           IF v.kind = "String" THEN as_bytes(v.v) ELSE v.v,
                           <<v>>)

\* the match on get_type of from_ffi and from_ffi_borrowed, for a handle
\* that is not null: the Values it may build
value_of(hp, h) ==
    UNION {{[kind |-> t, v |-> IF t = "String" THEN get_string(d) ELSE d] :
               d \in (IF t = "Void" THEN {<<>>}
                      ELSE naab_rust_value_get(hp, h, t))} :
           t \in naab_rust_value_get_type(hp, h)}

\* Value::from_ffi_borrowed: the Values it may return
from_ffi_borrowed(hp, h) == IF h = NULL THEN {VoidV} ELSE value_of(hp, h)

\* ffi::free_value
free_value(hp, h) == IF h # NULL THEN naab_rust_value_free(hp, h) ELSE hp

\* how the process goes on after naab_rust_value_free(h): freeing a handle
\* that was freed before is undefined, the process may go on or crash
after_free(hp, h) ==
    IF h = NULL \/ hp[h].live THEN {"run"} ELSE {"run", "crashed"}

\* the caller hands handle h over (to from_ffi or free_value)
Give(hp, h) == [hp EXCEPT ![h].given = @ + 1]

RECURSIVE rust_args_from(_, _, _)
\* slice.iter().map(from_ffi_borrowed).collect(): the vectors it may build
\* from args[1..k]
rust_args_from(hp, args, k) ==
    IF k = 0 THEN {<<>>}
    ELSE {Append(a, x) : a \in rust_args_from(hp, args, k - 1),
                         x \in from_ffi_borrowed(hp, args[k])}

RECURSIVE touch_all(_, _, _)
\* the reads of args[1..k] recorded
touch_all(hp, args, k) ==
    IF k = 0 THEN hp
    ELSE LET rest == touch_all(hp, args, k - 1)
         IN  IF args[k] = NULL THEN rest ELSE Touch(rest, args[k])

\* get_int_arg!(args, 0, 0)
get_int_arg0(rust_args) ==
    IF Len(rust_args) >= 1 /\ rust_args[1].kind = "Int"
    THEN rust_args[1].v[1] ELSE 0

\* the body of add_one: Value::Int(num + 1).  At i32::MAX the addition
\* panics (overflow checks on) or wraps (overflow checks off)
add_one(rust_args) ==
    LET num == get_int_arg0(rust_args)
    IN  IF num = I32_MAX
        THEN {[panic |-> TRUE, val |-> VoidV],
              [panic |-> FALSE, val |-> IntV(-I32_MAX - 1)]}
        ELSE {[panic |-> FALSE, val |-> IntV(num + 1)]}

(***************************************************************************)
(* Binding layer: the calls a host makes                                   *)
(***************************************************************************)
Handles == NULL..Len(heap)

\* the other variables of the module
not_ffi_vars == <<luhn_vars, scan_vars, server_vars, norm_vars, obf_vars,
                  loop_vars>>

\* the caller's rule: a handle is handed to from_ffi or free_value at most
\* once (null may be passed any number of times)
NotGiven(h) == IF h = NULL THEN TRUE ELSE heap[h].given = 0

FfiInit ==
    /\ heap = <<>> /\ ffi_pc = "run" /\ last = <<>>
    /\ LuhnIdle /\ ScanIdle /\ ServerIdle /\ NormIdle /\ ObfIdle /\ LoopIdle

\* v.to_ffi(): create_string panics on a 0 byte, otherwise a new handle
ToFfi(v) ==
    /\ ffi_pc = "run" /\ Len(heap) < MaxHandles
    /\ IF create_string_panics(v)
       THEN /\ ffi_pc' = "panicked"
            /\ heap' = heap
            /\ last' = <<[op |-> "to_ffi", h |-> NULL, val |-> v]>>
       ELSE /\ ffi_pc' = ffi_pc
            /\ heap' = to_ffi(heap, v)
            /\ last' = <<[op |-> "to_ffi", h |-> Len(heap) + 1, val |-> v]>>
    /\ UNCHANGED not_ffi_vars

\* Value::from_ffi(h), h null or a handle the caller has not handed over
\* before: Void for null; otherwise the value is read, then freed
FromFfi(h) ==
    /\ ffi_pc = "run"
    /\ NotGiven(h)
    /\ IF h = NULL
       THEN /\ heap' = heap /\ ffi_pc' = ffi_pc
            /\ last' = <<[op |-> "from_ffi", h |-> h, val |-> VoidV]>>
       ELSE \E result \in value_of(heap, h) :
              /\ heap' = free_value(Give(Touch(heap, h), h), h)
              /\ ffi_pc' \in after_free(heap, h)
              /\ last' = <<[op |-> "from_ffi", h |-> h, val |-> result]>>
    /\ UNCHANGED not_ffi_vars

\* FromFfiBorrowed with the free_value call of from_ffi
FromFfiBorrowed_owning(h) ==
    /\ ffi_pc = "run"
    /\ \E result \in from_ffi_borrowed(heap, h) :
          last' = <<[op |-> "from_ffi_borrowed", h |-> h, val |-> result]>>
    /\ heap' = IF h = NULL THEN heap ELSE free_value(Touch(heap, h), h)
    /\ ffi_pc' \in after_free(heap, h)
    /\ UNCHANGED not_ffi_vars

\* Value::from_ffi_borrowed(h), h null or any handle: the value is read
FromFfiBorrowed(h) ==
    /\ ffi_pc = "run"
    /\ \E result \in from_ffi_borrowed(heap, h) :
          last' = <<[op |-> "from_ffi_borrowed", h |-> h, val |-> result]>>
    /\ heap' = IF h = NULL THEN heap ELSE Touch(heap, h)
    /\ ffi_pc' = ffi_pc
    /\ UNCHANGED not_ffi_vars

\* ffi::free_value(h), h null or a handle the caller has not handed over
FreeValue(h) ==
    /\ ffi_pc = "run"
    /\ NotGiven(h)
    /\ heap' = IF h = NULL THEN heap ELSE free_value(Give(heap, h), h)
    /\ ffi_pc' \in after_free(heap, h)
    /\ last' = <<[op |-> "free_value", h |-> h, val |-> VoidV]>>
    /\ UNCHANGED not_ffi_vars

\* the extern "C" function naab_block!(add_one, ..) generates, called with
\* the array args (args_null: the array pointer itself is null): the
\* arguments are read as borrowed, the body runs, the result goes to to_ffi;
\* a panic of the body aborts the process
BlockCall(args, args_null) ==
    /\ ffi_pc = "run" /\ Len(heap) < MaxHandles
    /\ LET n == IF args_null \/ Len(args) = 0 THEN 0 ELSE Len(args)
       IN  \E rust_args \in rust_args_from(heap, args, n) :
           \E out \in add_one(rust_args) :
               IF out.panic
               THEN /\ ffi_pc' = "aborted"
                    /\ heap' = touch_all(heap, args, n)
                    /\ last' = <<[op |-> "block", h |-> NULL, val |-> VoidV]>>
               ELSE /\ ffi_pc' = ffi_pc
                    /\ heap' = to_ffi(touch_all(heap, args, n), out.val)
                    /\ last' = <<[op |-> "block", h |-> Len(heap) + 1,
                                  val |-> out.val]>>
    /\ UNCHANGED not_ffi_vars

FfiNext ==
    \/ \E v \in CallerValues : ToFfi(v)
    \/ \E h \in Handles : FromFfi(h)
    \/ \E h \in Handles : FromFfiBorrowed(h)
    \/ \E h \in Handles : FreeValue(h)
    \/ \E n \in 0..MaxArgs : \E args \in [1..n -> Handles] :
          \E args_null \in BOOLEAN : BlockCall(args, args_null)

SpecFfi == FfiInit /\ [][FfiNext]_vars

(***************************************************************************)
(* Vocabulary of the properties                                            *)
(***************************************************************************)
\* how many findings of fs have the given kind
CountKind(fs, kind) == Cardinality({k \in 1..Len(fs) : fs[k].pii_type = kind})

\* how many elements of the sequence t are ASCII digits
NDigits(t) == Cardinality({k \in 1..Len(t) : t[k] >= 48 /\ t[k] <= 57})

\* the bytes scan_pii walks over for the harness input
NormBytes == as_bytes(normalize_text(raw_text))

\* a digit-run character: a digit or one of the separators '-', ' ', '.'
RunChar(b) == (b >= 48 /\ b <= 57) \/ b \in {45, 32, 46}

\* the maximal digit runs of bs, each as <<lo, hi>>: the bytes at the 0-based
\* offsets lo..hi-1 are run characters, those at lo-1 and hi (if any) are not
MaximalRuns(bs) ==
    LET starts == {lo \in 0..(Len(bs) - 1) :
                      RunChar(bs[lo + 1]) /\ (lo = 0 \/ ~RunChar(bs[lo]))}
        ends   == {hi \in 1..Len(bs) :
                      RunChar(bs[hi]) /\ (hi = Len(bs) \/ ~RunChar(bs[hi + 1]))}
    IN  { <<lo, CHOOSE hi \in ends :
                   hi > lo /\ \A g \in ends : g > lo => hi <= g>> : lo \in starts }

\* the digit values among the bytes of bs at the 0-based offsets lo..hi-1
DigitValues(bs, lo, hi) ==
    LET ds == SelectSeq(SubSeq(bs, lo + 1, hi), LAMBDA b : b >= 48 /\ b <= 57)
    IN  [k \in 1..Len(ds) |-> ds[k] - 48]

RECURSIVE RefLuhnSum(_, _)
\* the reference Luhn sum of the digit values ds[1..k]: the digit at distance
\* Len(ds) - k from the right is doubled, and reduced by 9 above 9, when that
\* distance is odd
RefLuhnSum(ds, k) ==
    IF k = 0 THEN 0
    ELSE LET d == ds[k]
             w == IF (Len(ds) - k) % 2 = 1
                  THEN (IF 2 * d > 9 THEN 2 * d - 9 ELSE 2 * d)
                  ELSE d
         IN  w + RefLuhnSum(ds, k - 1)

\* the digit values ds form a valid card number
RefLuhnValid(ds) ==
    Len(ds) >= 13 /\ Len(ds) <= 19 /\ RefLuhnSum(ds, Len(ds)) % 10 = 0

\* the spans of a finished scan are pairwise disjoint
SpansDisjoint(spans) ==
    \A a, b \in 1..Len(spans) :
        a # b => (spans[a][2] <= spans[b][1] \/ spans[b][2] <= spans[a][1])

\* the maximal blocks of contiguous ASCII digits of the text t, as <<lo, hi>>
DigitBlocks(t) ==
    LET IsD(c) == c >= 48 /\ c <= 57
        starts == {lo \in 0..(Len(t) - 1) :
                      IsD(t[lo + 1]) /\ (lo = 0 \/ ~IsD(t[lo]))}
        ends   == {hi \in 1..Len(t) :
                      IsD(t[hi]) /\ (hi = Len(t) \/ ~IsD(t[hi + 1]))}
    IN  { <<lo, CHOOSE hi \in ends :
                   hi > lo /\ \A g \in ends : g > lo => hi <= g>> : lo \in starts }

\* span <<lo, hi>> lies inside run <<rlo, rhi>>
Inside(span, run) == run[1] <= span[1] /\ span[2] <= run[2]

\* the spans of the findings that lie inside the run
SpansIn(spans, run) == {k \in 1..Len(spans) : Inside(spans[k], run)}

\* the run holds exactly 16 digits and they pass the reference Luhn test
ValidCard16(bs, run) ==
    LET ds == DigitValues(bs, run[1], run[2])
    IN  Len(ds) = 16 /\ RefLuhnValid(ds)

ScanDone == scan_out # <<>>
LuhnDone == luhn_out # <<>>

(***************************************************************************)
(* Properties of luhn_check                                                *)
(***************************************************************************)
\* C4: luhn_check is FALSE below 13 and above 19 digits and otherwise TRUE
\* exactly when the reference Luhn sum is divisible by 10; 4111111111111111
\* is valid and 4111111111111112 is not.
C4_LuhnReference ==
    LuhnDone =>
        /\ luhn_out[1].plain =
              RefLuhnValid(DigitValues(cc_digits, 0, Len(cc_digits)))
        /\ (Len(cc_digits) < 13 \/ Len(cc_digits) > 19 => ~luhn_out[1].plain)
        /\ (cc_digits = Digits(V16) => luhn_out[1].plain)
        /\ (cc_digits = Digits(X16) => ~luhn_out[1].plain)

C4_Witness ==
    /\ LuhnDone /\ cc_digits = Digits(V16) /\ luhn_out[1].plain

\* C5: inserting separators ('-', ' ', '.') into a digit sequence does not
\* change the result of luhn_check.
C5_SeparatorInvariant ==
    LuhnDone => luhn_out[1].separated = luhn_out[1].plain

C5_Witness ==
    /\ LuhnDone /\ luhn_out[1].separated
    /\ Len(cc_number) > Len(cc_digits) + 4

C7_SsnFirst ==
    ScanDone =>
        \A a, b \in 1..Len(scan_out[1].findings) :
            a < b => ~(/\ scan_out[1].findings[a].pii_type = "FIN_CREDIT_CARD"
                       /\ scan_out[1].findings[b].pii_type = "ID_SSN")

C7_Witness ==
    /\ ScanDone
    /\ CountKind(scan_out[1].findings, "ID_SSN") = 1
    /\ CountKind(scan_out[1].findings, "FIN_CREDIT_CARD") = 2

\* C2 as stated: a maximal digit run holding fewer than 13 or more than 19
\* digits never yields a FIN_CREDIT_CARD finding.
C2_Original ==
    ScanDone =>
        LET bs == NormBytes
        IN  \A run \in MaximalRuns(bs) :
                LET n == Len(DigitValues(bs, run[1], run[2]))
                IN  (n < 13 \/ n > 19) => SpansIn(scan_out[1].spans, run) = {}

\* C2 amended: a maximal digit run holding fewer than 13 digits never yields
\* a FIN_CREDIT_CARD finding, and every finding's candidate, the digits from
\* the cursor to the end of its run, numbers between 13 and 19 digits that
\* pass the Luhn test (so a run of more than 19 digits can yield a finding
\* only from its last 13 to 19 digits).
C2_CandidateLength ==
    ScanDone =>
        LET bs    == NormBytes
            runs  == MaximalRuns(bs)
            spans == scan_out[1].spans
        IN  /\ \A run \in runs :
                  Len(DigitValues(bs, run[1], run[2])) < 13
                      => SpansIn(spans, run) = {}
            /\ \A k \in 1..Len(spans) :
                  /\ RefLuhnValid(DigitValues(bs, spans[k][1], spans[k][2]))
                  /\ \E run \in runs :
                        Inside(spans[k], run) /\ spans[k][2] = run[2]
            /\ Len(spans) = CountKind(scan_out[1].findings, "FIN_CREDIT_CARD")

\* a run of more than 19 digits that yields a finding, beside a run of fewer
\* than 13 digits that yields none
C2_Witness ==
    /\ ScanDone
    /\ LET bs == NormBytes
       IN  /\ \E run \in MaximalRuns(bs) :
                 /\ Len(DigitValues(bs, run[1], run[2])) > 19
                 /\ SpansIn(scan_out[1].spans, run) # {}
           /\ \E run \in MaximalRuns(bs) :
                 /\ Len(DigitValues(bs, run[1], run[2])) \in 9..12
                 /\ SpansIn(scan_out[1].spans, run) = {}

\* C3 as stated: two Luhn-valid blocks of 16 digits separated by text that
\* holds no digit give two FIN_CREDIT_CARD findings with disjoint spans.
C3_Original ==
    ScanDone =>
        ((\E b1, b2 \in DigitBlocks(raw_text) :
              /\ b1[2] < b2[1]
              /\ ValidCard16(raw_text, b1) /\ ValidCard16(raw_text, b2))
         => /\ CountKind(scan_out[1].findings, "FIN_CREDIT_CARD") >= 2
            /\ SpansDisjoint(scan_out[1].spans))

\* C3 amended: when the normalized text holds two maximal digit runs (spans
\* of digits and separators, so set apart by at least one character that is
\* neither), each of exactly 16 Luhn-valid digits, each run yields exactly one
\* FIN_CREDIT_CARD finding, consuming the run from its first digit to its
\* end, and the spans of all findings are pairwise disjoint.
C3_OnePerRun ==
    ScanDone =>
        LET bs    == NormBytes
            spans == scan_out[1].spans
        IN  /\ \A run \in MaximalRuns(bs) :
                  ValidCard16(bs, run) =>
                     /\ Cardinality(SpansIn(spans, run)) = 1
                     /\ \A k \in SpansIn(spans, run) :
                           /\ spans[k][2] = run[2]
                           /\ NDigits(<<bs[spans[k][1] + 1]>>) = 1
                           /\ Len(DigitValues(bs, spans[k][1], run[2])) = 16
            /\ SpansDisjoint(spans)
            /\ Len(spans) = CountKind(scan_out[1].findings, "FIN_CREDIT_CARD")

\* two such runs, the first with separators between its digits
C3_Witness ==
    /\ ScanDone
    /\ LET bs == NormBytes
       IN  \E r1, r2 \in MaximalRuns(bs) :
              /\ r1[2] < r2[1]
              /\ ValidCard16(bs, r1) /\ ValidCard16(bs, r2)
              /\ Len(DigitValues(bs, r1[1], r1[2])) < r1[2] - r1[1]
    /\ CountKind(scan_out[1].findings, "FIN_CREDIT_CARD") = 2

(***************************************************************************)
(* Properties of the connection server                                     *)
(***************************************************************************)
RECURSIVE RefItems(_, _)
\* the findings fs[1..k], each as {"type":"K"}, with ',' between them
RefItems(fs, k) ==
    IF k = 0 THEN ""
    ELSE (IF k = 1 THEN "" ELSE RefItems(fs, k - 1) \o ",")
         \o "{\"type\":\"" \o fs[k].pii_type \o "\"}"

\* the response the claim states for the payload p: '[', the findings of
\* scan_pii in order with ',' between them, ']'
RefResponse(p) ==
    LET fs == scan_pii(p.text) IN "[" \o RefItems(fs, Len(fs)) \o "]"

\* connection c was read successfully and its handling is over
Served(c) == conns[c].rd = <<"ok">> /\ conns[c].srv = "closed"

ExampleResponse == "[{\"type\":\"ID_SSN\"},{\"type\":\"FIN_CREDIT_CARD\"}]"

\* C6 as stated: every connection whose payload was read successfully gets
\* the whole rendered response written on it.
C6_Original ==
    \A c \in 1..Len(conns) :
        Served(c) =>
            conns[c].wire = <<[data     |-> RefResponse(conns[c].payload),
                               complete |-> TRUE]>>

\* C6 amended: for every connection whose payload was read successfully the
\* server makes one write_all call, with the data '[' findings ']' as the claim
\* renders them ('[]' for the empty payload, the two-finding array for the
\* example); the data reaches the client in full when write_all succeeds,
\* which it cannot when the client has closed its socket.
C6_ResponseRendered ==
    /\ \A k \in 1..Len(findings) :
          findings[k].pii_type \in {"ID_SSN", "FIN_CREDIT_CARD"}
    /\ \A c \in 1..Len(conns) :
        Served(c) =>
            /\ Len(conns[c].wire) = 1
            /\ conns[c].wire[1].data = RefResponse(conns[c].payload)
            /\ (conns[c].payload.text = <<>> => conns[c].wire[1].data = "[]")
            /\ (conns[c].payload.text = ExampleText
                   => conns[c].wire[1].data = ExampleResponse)
            /\ (conns[c].wire[1].complete => conns[c].peer # "open")

\* the example payload and the empty payload both answered in full
C6_Witness ==
    \E c, d \in 1..Len(conns) :
        /\ Served(c) /\ conns[c].payload.text = ExampleText
        /\ conns[c].wire = <<[data |-> ExampleResponse, complete |-> TRUE]>>
        /\ Served(d) /\ conns[d].payload.text = <<>>
        /\ conns[d].wire = <<[data |-> "[]", complete |-> TRUE]>>

\* connection c of cs had a read failure
ReadFailedIn(cs, c) == \E k \in 1..Len(cs[c].rd) : cs[c].rd[k] = "err"

ReadFailed(c) == ReadFailedIn(conns, c)

\* C8: after a failed read the server writes nothing on the connection, does
\* not run the detector on it, does not read again, and goes on to close the
\* connection and accept again.
C8_ReadFailureDropped ==
    /\ [](\A c \in 1..Len(conns) :
             /\ Len(conns[c].rd) <= 1
             /\ ReadFailed(c) => conns[c].wire = <<>> /\ ~conns[c].scanned)
    /\ [][(cur # 0 /\ ReadFailedIn(conns', cur))
             => (/\ pc' \in {"Closing", "Accepting"}
                 /\ (pc' # pc => /\ pc = "Reading" /\ pc' = "Closing"
                                 \/ /\ pc = "Closing" /\ pc' = "Accepting"
                                    /\ conns'[cur].srv = "closed"))]_vars

\* both kinds of read failure, each followed by the accept of the next
C8_Witness ==
    /\ Len(conns) = 2
    /\ conns[1].rd = <<"err">> /\ ~conns[1].payload.valid
    /\ conns[1].srv = "closed" /\ conns[1].wire = <<>>
    /\ conns[2].srv = "open" /\ conns[2].rd = <<"ok">>

\* a step in which accept, read or write fails
FailureStep ==
    \/ pc = "Accepting" /\ backlog' = backlog /\ conns' = conns /\ accept_failed'
    \/ cur # 0 /\ ~ReadFailed(cur) /\ ReadFailedIn(conns', cur)
    \/ cur # 0 /\ Len(conns'[cur].wire) > Len(conns[cur].wire)
               /\ ~conns'[cur].wire[Len(conns'[cur].wire)].complete

\* C9: once bound the server never terminates; a failed accept, read or write
\* leaves it in the loop; the step that ends the handling of a connection
\* puts it in Accepting; and connections leave the queue only by being
\* accepted, in the order they were made.
C9_FailuresContained ==
    /\ [][pc' = "Exited" => pc = "Bind"]_vars
    /\ [][FailureStep => pc' \in {"Accepting", "Closing"}]_vars
    /\ [][(cur # 0 /\ cur' # cur) => (pc' = "Accepting" /\ cur' = 0)]_vars
    /\ [][pc = "Closing" => pc' \in {"Closing", "Accepting"}]_vars
    /\ [][backlog' # backlog =>
             \/ backlog' = Append(backlog, Len(conns) + 1)
             \/ /\ pc = "Accepting" /\ pc' = "Reading"
                /\ cur' = Head(backlog) /\ backlog' = Tail(backlog)]_vars

\* a failed accept and a failed write behind, the next connection in service
C9_Witness ==
    /\ accept_failed
    /\ Len(conns) = 2
    /\ conns[1].srv = "closed" /\ Len(conns[1].wire) = 1
    /\ ~conns[1].wire[1].complete
    /\ conns[2].srv = "open" /\ pc = "Writing"

\* C10: at most one accepted connection is open on the server side, it is the
\* one in service, and every connection made before it has been serviced
\* (read, and if read successfully scanned and written to) and closed.
C10_Sequential ==
    /\ Cardinality({c \in 1..Len(conns) : conns[c].srv = "open"}) <= 1
    /\ \A c \in 1..Len(conns) :
          /\ conns[c].srv = "open" <=> cur = c
          /\ conns[c].srv = "open" =>
                \A d \in 1..(c - 1) :
                    /\ conns[d].srv = "closed"
                    /\ Len(conns[d].rd) = 1
                    /\ conns[d].rd = <<"ok">>
                          => conns[d].scanned /\ Len(conns[d].wire) = 1
    /\ (pc = "Accepting" => cur = 0)
    /\ (pc \in {"Reading", "Processing", "Writing", "Closing"} => cur # 0)

\* the second connection in service after the first was serviced and closed
C10_Witness ==
    /\ Len(conns) = 2
    /\ conns[1].srv = "closed" /\ conns[1].rd = <<"ok">>
    /\ conns[2].srv = "open" /\ cur = 2

\* the positions main passes through, in the order the code allows
PcOrder ==
    { <<"Start", "Bind">>, <<"Bind", "Accepting">>, <<"Bind", "Exited">>,
      <<"Accepting", "Reading">>, <<"Reading", "Processing">>,
      <<"Reading", "Closing">>, <<"Processing", "Writing">>,
      <<"Writing", "Closing">>, <<"Closing", "Accepting">> }

\* C11: on every accepted connection the steps come in the order read to end
\* of stream, process, write, close: nothing is written before the peer has
\* closed its write side and before the payload was read and scanned, at most
\* one write is made, the write attempt (successful or not) is followed by
\* the close, and a closed connection is never touched again.
C11_Lifecycle ==
    /\ [](\A c \in 1..Len(conns) :
             /\ Len(conns[c].wire) <= 1
             /\ conns[c].rd = <<"ok">> => conns[c].peer # "open"
             /\ conns[c].scanned => conns[c].rd = <<"ok">>
             /\ conns[c].wire # <<>> => conns[c].scanned /\ conns[c].peer # "open"
             /\ conns[c].srv = "queued" =>
                    conns[c].rd = <<>> /\ ~conns[c].scanned /\ conns[c].wire = <<>>)
    /\ [][pc' # pc => <<pc, pc'>> \in PcOrder]_vars
    /\ [][(cur # 0 /\ conns'[cur].wire # conns[cur].wire)
             => (pc = "Writing" /\ pc' = "Closing" /\ conns'[cur].srv = "open")]_vars
    /\ [][(pc = "Closing" /\ pc' # pc)
             => (conns'[cur].srv = "closed" /\ cur' = 0)]_vars
    /\ [][\A c \in 1..Len(conns) :
             conns[c].srv = "closed" =>
                /\ conns'[c].srv = "closed" /\ conns'[c].rd = conns[c].rd
                /\ conns'[c].scanned = conns[c].scanned
                /\ conns'[c].wire = conns[c].wire]_vars

\* one connection closed after a failed write, the next closed after a
\* successful write made once its peer had closed its write side only
C11_Witness ==
    /\ Len(conns) = 2
    /\ conns[1].srv = "closed" /\ Len(conns[1].wire) = 1
    /\ ~conns[1].wire[1].complete
    /\ conns[2].srv = "closed" /\ Len(conns[2].wire) = 1
    /\ conns[2].wire[1].complete /\ conns[2].peer = "shut_wr"

(***************************************************************************)
(* Properties of normalize_text                                            *)
(***************************************************************************)
NormDone == norm_out # <<>>

\* the characters the claim names: U+200B..U+200F and U+FEFF
ZeroWidth(c) == c \in 8203..8207 \/ c = 65279

\* an ASCII capital letter
AsciiUpper(c) == c \in 65..90

\* how many elements of the text t satisfy ZeroWidth
NZeroWidth(t) == Cardinality({k \in 1..Len(t) : ZeroWidth(t[k])})

\* C12: normalize_text is idempotent: applying it to its own result gives
\* that result.
C12_Idempotent ==
    NormDone => norm_out[1].twice = norm_out[1].once

\* a text the normalizer both shortens and lowercases
C12_Witness ==
    /\ NormDone
    /\ Len(norm_out[1].once) < Len(norm_in)
    /\ \E k \in 1..Len(norm_in) : AsciiUpper(norm_in[k])
    /\ norm_out[1].twice = norm_out[1].once

\* C13: normalize_text returns the characters of its input in their order,
\* without those in U+200B..U+200F and U+FEFF (removed, so the length
\* shrinks by their number) and with the ASCII capitals among the others
\* lowercased and every other character as it was; the empty text gives the
\* empty text.
C13_StripAndLower ==
    NormDone =>
        LET out  == norm_out[1].once
            kept == SelectSeq(norm_in, LAMBDA c : ~ZeroWidth(c))
        IN  /\ Len(out) = Len(norm_in) - NZeroWidth(norm_in)
            /\ Len(out) = Len(kept)
            /\ \A k \in 1..Len(out) :
                  /\ ~ZeroWidth(out[k]) /\ ~AsciiUpper(out[k])
                  /\ out[k] = (IF AsciiUpper(kept[k]) THEN kept[k] + 32
                                                      ELSE kept[k])
            /\ (norm_in = <<>> => out = <<>>)

\* a zero-width character and a byte-order mark removed from around a capital
C13_Witness ==
    /\ NormDone
    /\ Len(norm_in) = 3 /\ norm_in[1] = 8207 /\ norm_in[3] = 65279
    /\ AsciiUpper(norm_in[2])
    /\ norm_out[1].once = <<norm_in[2] + 32>>

(***************************************************************************)
(* Properties of the connection server, continued                          *)
(***************************************************************************)
\* the server is in read_to_string on a stream whose peer has not closed its
\* write side
ReadPending == pc = "Reading" /\ conns[cur].peer = "open"

\* C14: the read has no timeout and no cancellation: while the peer of the
\* stream being read keeps its write side open and no read error occurs, the
\* server stays in Reading on that stream, and no other connection is
\* accepted, read, written to or closed.
C14_ReadBlocks ==
    /\ [](pc = "Reading" =>
             \A c \in (cur + 1)..Len(conns) :
                 /\ conns[c].srv = "queued" /\ conns[c].rd = <<>>
                 /\ conns[c].wire = <<>>)
    /\ [][(ReadPending /\ conns'[cur].rd = conns[cur].rd)
             => /\ pc' = "Reading" /\ cur' = cur
                /\ conns'[cur].srv = "open" /\ conns'[cur].wire = <<>>
                /\ buffer' = <<>> /\ accept_failed' = accept_failed
                /\ \A c \in 1..Len(conns) :
                      /\ conns'[c].srv = conns[c].srv
                      /\ conns'[c].rd = conns[c].rd
                      /\ conns'[c].wire = conns[c].wire
                /\ \A c \in (Len(conns) + 1)..Len(conns') :
                      conns'[c].srv = "queued"]_vars

\* the first client keeps its write side open; the second has sent all of
\* its payload and waits in the listener's queue
C14_Witness ==
    /\ ReadPending /\ cur = 1
    /\ Len(conns) = 2 /\ backlog = <<2>>
    /\ conns[2].peer = "shut_wr" /\ conns[2].srv = "queued"

\* the response to a payload p, computed from p alone
ResponseOf(p) == format_response(scan_pii(p.text))

\* C15: no state is shared between requests: between two requests the
\* per-request values (buffer, findings, response) are gone, the response
\* handed to write_all for a connection is a function of that connection's
\* payload alone, whatever was served before, and any two connections with
\* the same payload are handed the same response.
C15_NoSharedState ==
    /\ (pc \in {"Accepting", "Reading"} =>
            buffer = <<>> /\ findings = <<>> /\ response = "")
    /\ (pc = "Writing" => response = ResponseOf(conns[cur].payload))
    /\ \A c \in 1..Len(conns) :
          /\ (c = cur /\ conns[c].wire # <<>>) => conns[c].wire[1].data = response
          /\ \A d \in 1..Len(conns) :
                (/\ conns[c].payload = conns[d].payload
                 /\ conns[c].wire # <<>> /\ conns[d].wire # <<>>)
                => conns[c].wire[1].data = conns[d].wire[1].data

\* a request with two findings and a failed accept behind, the next request
\* answered from its own payload
C15_Witness ==
    /\ accept_failed
    /\ Len(conns) = 2
    /\ conns[1].payload.text = ExampleText
    /\ conns[1].srv = "closed" /\ Len(conns[1].wire) = 1
    /\ conns[2].payload.text = Digits(N9)
    /\ conns[2].wire = <<[data |-> "[{\"type\":\"ID_SSN\"}]", complete |-> TRUE]>>

\* C16: main first attempts the removal of the endpoint at the socket path
\* and goes on to bind whether the removal succeeded or failed; a failed bind
\* ends the process, which then does nothing more and has accepted nothing;
\* the accept loop is entered only by a bind that created the endpoint, and
\* connections are made and accepted only after that.
C16_Startup ==
    /\ [](pc \in {"Start", "Bind", "Exited"} =>
             conns = <<>> /\ backlog = <<>> /\ cur = 0)
    /\ [](Listening => sock_file)
    /\ [][(pc = "Start" /\ pc' # pc)
             => (pc' = "Bind" /\ (~sock_file' \/ sock_file' = sock_file))]_vars
    /\ [][(pc = "Bind" /\ pc' # pc)
             => \/ pc' = "Accepting" /\ ~sock_file /\ sock_file'
                \/ pc' = "Exited" /\ sock_file' = sock_file]_vars
    /\ [][pc = "Exited" => UNCHANGED server_vars]_vars
    /\ [][(cur' # cur /\ cur' # 0) => (pc = "Accepting" /\ sock_file)]_vars

\* the removal of a stale endpoint failed, main went on to bind, and the
\* bind failed: the process is over with no connection made
C16_Witness ==
    /\ pc = "Exited" /\ sock_file /\ conns = <<>> /\ ~accept_failed

(***************************************************************************)
(* Properties of the credit-card pass                                      *)
(***************************************************************************)
\* the digit positions p of the run from which the digits up to the end of
\* the run number between 13 and 19 and pass the reference Luhn test
ValidStarts(bs, run) ==
    {p \in run[1]..(run[2] - 1) :
        /\ bs[p + 1] >= 48 /\ bs[p + 1] <= 57
        /\ RefLuhnValid(DigitValues(bs, p, run[2]))}

\* the least element of a non-empty set of numbers
Least(S) == CHOOSE p \in S : \A q \in S : p <= q

\* C17: every FIN_CREDIT_CARD finding consumes the text from its first digit
\* to the end of the maximal digit run it lies in, where the scan resumes:
\* the spans of the findings come in increasing order and are pairwise
\* disjoint, and each maximal run holds the span of at most one finding.
C17_NoOverlap ==
    ScanDone =>
        LET bs    == NormBytes
            runs  == MaximalRuns(bs)
            spans == scan_out[1].spans
        IN  /\ Len(spans) = CountKind(scan_out[1].findings, "FIN_CREDIT_CARD")
            /\ \A k \in 1..Len(spans) :
                  /\ spans[k][1] < spans[k][2]
                  /\ \E run \in runs :
                        Inside(spans[k], run) /\ spans[k][2] = run[2]
                  /\ k > 1 => spans[k - 1][2] <= spans[k][1]
            /\ SpansDisjoint(spans)
            /\ \A run \in runs : Cardinality(SpansIn(spans, run)) <= 1

\* two findings, one of them in a run where more than one start is valid
C17_Witness ==
    /\ ScanDone
    /\ Len(scan_out[1].spans) = 2
    /\ \E run \in MaximalRuns(NormBytes) :
          /\ Cardinality(ValidStarts(NormBytes, run)) >= 2
          /\ Cardinality(SpansIn(scan_out[1].spans, run)) = 1

\* C18: a maximal digit run yields a FIN_CREDIT_CARD finding exactly when it
\* has a digit position from which the digits up to the end of the run
\* number between 13 and 19 and pass the Luhn test, and the finding consumes
\* the run from the leftmost such position to its end.
C18_LeftmostStart ==
    ScanDone =>
        LET bs    == NormBytes
            spans == scan_out[1].spans
        IN  \A run \in MaximalRuns(bs) :
                LET starts == ValidStarts(bs, run)
                    got    == SpansIn(spans, run)
                IN  /\ (got # {}) <=> (starts # {})
                    /\ \A k \in got : spans[k] = <<Least(starts), run[2]>>

\* a run whose first digits fail as a start, with two valid starts after
\* them: the finding comes from the first of the two
C18_Witness ==
    /\ ScanDone
    /\ \E run \in MaximalRuns(NormBytes) :
          LET starts == ValidStarts(NormBytes, run)
          IN  /\ Cardinality(starts) >= 2
              /\ Least(starts) > run[1] + 1
              /\ \E k \in 1..Len(scan_out[1].spans) :
                    scan_out[1].spans[k] = <<Least(starts), run[2]>>

(***************************************************************************)
(* Properties of scan_pii under obfuscation                                *)
(***************************************************************************)
ObfDone == scan_out # <<>> /\ obf_out # <<>>

\* how many elements of the text t are ASCII letters
NLetters(t) ==
    Cardinality({k \in 1..Len(t) :
                    (t[k] >= 65 /\ t[k] <= 90) \/ (t[k] >= 97 /\ t[k] <= 122)})

\* C19: a text and the same text with characters of U+200B..U+200F or
\* U+FEFF inserted (also between the digits of a number) and with the case
\* of its ASCII letters changed give the same sequence of findings.
C19_ObfuscationInvariant ==
    ObfDone => obf_out[1].findings = scan_out[1].findings

\* a card and an SSN found in a text and in that text with a zero-width
\* character after every character and the case of its letters changed
C19_Witness ==
    /\ ObfDone
    /\ Len(obf_text) >= 2 * Len(raw_text) /\ Len(raw_text) > 16
    /\ NLetters(raw_text) > 0
    /\ \E k \in 1..Len(raw_text) : obf_text[2 * k] # raw_text[k]
    /\ CountKind(obf_out[1].findings, "FIN_CREDIT_CARD") >= 1
    /\ CountKind(obf_out[1].findings, "ID_SSN") = 1

(***************************************************************************)
(* Termination of scan_pii                                                 *)
(***************************************************************************)
\* C20: scan_pii returns for every input; every iteration of the outer
\* while moves i forward, by one or, with a finding, to the j > i where the
\* inner while ended; i and j never exceed the length of the text; a text
\* with fewer than 9 digits, which matches nothing, gives no finding.
C20_Terminates ==
    /\ <>(scan_out # <<>>)
    /\ [](/\ scan_j <= Len(scan_bytes)
          /\ scan_st # <<>> => scan_st[1].i <= Len(scan_bytes))
    /\ [][(scan_st # <<>> /\ scan_out' = scan_out)
             => LET i  == scan_st[1].i
                    i2 == scan_st'[1].i
                IN  /\ i2 > i
                    /\ \/ /\ i2 = i + 1
                          /\ scan_st'[1].findings = scan_st[1].findings
                       \/ /\ i2 = scan_j' /\ scan_j' > i
                          /\ Len(scan_st'[1].findings) =
                                Len(scan_st[1].findings) + 1]_vars
    /\ []((scan_out # <<>> /\ NDigits(normalize_text(raw_text)) < 9)
             => scan_out[1].findings = <<>>)

\* scan_pii has returned a card finding, the inner while having run up to
\* the end of a text of more than 20 bytes
C20_Witness ==
    /\ scan_out # <<>> /\ scan_st # <<>>
    /\ Len(scan_bytes) > 20 /\ scan_j = Len(scan_bytes)
    /\ scan_out[1].i = Len(scan_bytes)
    /\ CountKind(scan_out[1].findings, "FIN_CREDIT_CARD") >= 1

(***************************************************************************)
(* Binding layer: ownership of handles, marshaling                         *)
(***************************************************************************)
\* the handles of hs are neither freed nor revived by the step
Kept(hs) ==
    \A g \in hs : /\ heap'[g].frees = heap[g].frees
                  /\ heap'[g].live = heap[g].live

\* what one call does to the handles: from_ffi frees its handle, once, having
\* read it while it was live, and no other; from_ffi(null) returns Void and
\* changes nothing; from_ffi_borrowed, free_value(null) and to_ffi free
\* nothing; a block call that returns frees nothing and creates one handle,
\* live, which it returns
OwnershipStep ==
    LET e   == last'[1]
        old == 1..Len(heap)
    IN  /\ Len(heap') >= Len(heap)
        /\ (e.op = "from_ffi" /\ e.h # NULL)
              => /\ Len(heap') = Len(heap)
                 /\ heap[e.h].live /\ ~heap[e.h].uaf => ~heap'[e.h].uaf
                 /\ heap[e.h].live => e.val \in value_of(heap, e.h)
                 /\ heap'[e.h].frees = heap[e.h].frees + 1
                 /\ ~heap'[e.h].live
                 /\ Kept(old \ {e.h})
        /\ (e.op = "from_ffi" /\ e.h = NULL)
              => e.val = VoidV /\ heap' = heap
        /\ (e.op = "from_ffi_borrowed" \/ (e.op = "free_value" /\ e.h = NULL))
              => Len(heap') = Len(heap) /\ Kept(old)
        /\ (e.op = "free_value" /\ e.h # NULL)
              => /\ Len(heap') = Len(heap)
                 /\ heap'[e.h].frees = heap[e.h].frees + 1
                 /\ Kept(old \ {e.h})
        /\ e.op = "to_ffi" => Kept(old)
        /\ (e.op = "block" /\ ffi_pc' = "run")
              => /\ Len(heap') = Len(heap) + 1
                 /\ e.h = Len(heap')
                 /\ heap'[e.h].live /\ heap'[e.h].frees = 0
                 /\ Kept(old)
        /\ (e.op = "block" /\ ffi_pc' # "run")
              => Len(heap') = Len(heap) /\ Kept(old)

RoundTripKinds == {"Int", "Bool", "String", "Void"}

\* v.to_ffi() returned a handle for the Value v of the last call
Marshaled ==
    (last # <<>> /\ last[1].op = "to_ffi"
                 /\ last[1].val.kind \in RoundTripKinds)
        => /\ ffi_pc = "run"
           /\ last[1].h # NULL
           /\ heap[last[1].h].src = <<last[1].val>>

\* the last from_ffi call, on a handle to_ffi had made of a Value v,
\* returned v and freed the handle
ReadBack ==
    (last # <<>> /\ last[1].op = "from_ffi" /\ last[1].h # NULL)
        => LET c == heap[last[1].h]
           IN  c.src[1].kind \in RoundTripKinds
                  => /\ last[1].val = c.src[1]
                     /\ ~c.live /\ c.frees = 1

\* C22: for every Value v of kind Int, Bool, String or Void, v.to_ffi()
\* gives a handle h, Value::from_ffi(h) equals v, and that from_ffi call
\* frees h.
C22_RoundTrip == Marshaled /\ ReadBack

\* to_ffi of the string U+00E9 gave a handle, and from_ffi has returned the
\* same string from it and freed it
C22_Witness ==
    /\ last # <<>> /\ last[1].op = "from_ffi" /\ last[1].h # NULL
    /\ last[1].val = StringV(<<233>>)
    /\ heap[last[1].h].data = <<195, 169>>
    /\ ~heap[last[1].h].live

=============================================================================
